---- MODULE Spec2Model ----
(***************************************************************************)
(* Model of the HCM agent demo: main.py's interactive loop, the LangGraph  *)
(* workflow of workflow.py (supervisor -> one of three sub-agents -> END), *)
(* supervisor.py's response parsing / routing, and the three sub-agents of *)
(* agents.py.                                                              *)
(*                                                                         *)
(* Text is modelled as a sequence of lexemes (TLA+ strings): "ACTION:",    *)
(* " ", "\n", "bob.jones", ... so that strip(), split('\n'), startswith()  *)
(* and replace() are computed, not assumed.  The empty Python string is    *)
(* <<>>.  Python dicts are functions whose domain is the set of keys.      *)
(* Dict objects that are shared by reference (user_memory) live in heap.   *)
(***************************************************************************)
EXTENDS Naturals, Sequences, FiniteSets, TLC

VARIABLES
    pc,             \* where control is: main's input(), a graph node, END, ...
    user_input,     \* main.py: user_input (after .strip())
    session_memory, \* main.py: session_memory, a reference into heap
    heap,           \* the dict objects reachable through references
    channels,       \* the compiled graph's channel values (its state)
    state,          \* the dict the node that ran last worked on and returned
    decision,       \* supervisor.py: decision (response.content)
    llm_raised,     \* whether the last llm.invoke raised
    parsed,         \* supervisor.py: parsed
    memory_context, \* supervisor.py: memory_context put into the prompt
    visited,        \* the nodes the graph has run in the current invocation
    console         \* the last thing main printed for the user

vars == <<pc, user_input, session_memory, heap, channels, state, decision,
          llm_raised, parsed, memory_context, visited, console>>

----------------------------------------------------------------------------
(* Bounds *)

\* The largest number of lines in a language-model response.
MaxLines == 3

----------------------------------------------------------------------------
(* Text *)

SP == " "
NL == "\n"
Whitespace == {SP, NL}

\* The token "none" the prompt asks the model to use for "no value".
NoneText == <<"none">>

RECURSIVE LStrip(_)
LStrip(s) ==
    IF s = <<>> THEN s
    ELSE IF Head(s) \in Whitespace THEN LStrip(Tail(s)) ELSE s

RECURSIVE RStrip(_)
RStrip(s) ==
    IF s = <<>> THEN s
    ELSE IF s[Len(s)] \in Whitespace THEN RStrip(SubSeq(s, 1, Len(s) - 1)) ELSE s

\* str.strip()
Strip(s) == RStrip(LStrip(s))

\* str.split('\n'): always at least one (possibly empty) piece.
RECURSIVE SplitLines(_)
SplitLines(s) ==
    IF \A i \in 1..Len(s) : s[i] # NL THEN <<s>>
    ELSE LET i == CHOOSE j \in 1..Len(s) :
                      s[j] = NL /\ \A k \in 1..(j - 1) : s[k] # NL
         IN  <<SubSeq(s, 1, i - 1)>> \o SplitLines(SubSeq(s, i + 1, Len(s)))

\* '\n'.join(lines)
RECURSIVE JoinLines(_)
JoinLines(ls) ==
    IF ls = <<>> THEN <<>>
    ELSE IF Len(ls) = 1 THEN ls[1]
    ELSE ls[1] \o <<NL>> \o JoinLines(Tail(ls))

\* str.startswith(label)
StartsWith(line, label) == line # <<>> /\ Head(line) = label

\* str.replace(label, ""): every occurrence goes, also the one inside
\* "USERNAME:" when the label is "NAME:".
RECURSIVE Replace(_, _)
Replace(line, label) ==
    IF line = <<>> THEN <<>>
    ELSE IF Head(line) = label THEN Replace(Tail(line), label)
    ELSE IF label = "NAME:" /\ Head(line) = "USERNAME:"
         THEN <<"USER">> \o Replace(Tail(line), label)
    ELSE <<Head(line)>> \o Replace(Tail(line), label)

\* str.lower() on the words a user can type here.
LowerToken(t) ==
    CASE t \in {"QUIT", "Quit"} -> "quit"
      [] t \in {"EXIT", "Exit"} -> "exit"
      [] t = "Q" -> "q"
      [] t = "Unlock" -> "unlock"
      [] OTHER -> t

Lower(s) == [i \in 1..Len(s) |-> LowerToken(s[i])]

----------------------------------------------------------------------------
(* Dicts *)

EmptyDict == [k \in {} |-> <<>>]

Put(d, k, v) == [x \in (DOMAIN d) \cup {k} |-> IF x = k THEN v ELSE d[x]]

\* dict.get(k, default)
Get(d, k, default) == IF k \in DOMAIN d THEN d[k] ELSE default

\* bool(dict.get(k)) for text values
Truthy(d, k) == k \in DOMAIN d /\ d[k] # <<>>

----------------------------------------------------------------------------
(* supervisor.py: parsing the model's response (lines 126-145) *)

Labels == <<"ACTION:", "USERNAME:", "EXTRA:", "NAME:", "USER_ID:", "EMAIL:">>

LabelKey(label) ==
    CASE label = "ACTION:" -> "action"
      [] label = "USERNAME:" -> "username"
      [] label = "EXTRA:" -> "extra"
      [] label = "NAME:" -> "name"
      [] label = "USER_ID:" -> "user_id"
      [] label = "EMAIL:" -> "email"

\* Which labels' values have "none" turned into "": EXTRA, NAME, USER_ID and
\* EMAIL (lines 136, 139, 142, 145); ACTION and USERNAME are stored as read.
NoneMapped(label) == label \in {"EXTRA:", "NAME:", "USER_ID:", "EMAIL:"}

\* The value one matching line stores.
LineValue(line, label) ==
    LET v == Strip(Replace(line, label))
    IN  IF NoneMapped(label) /\ v = NoneText THEN <<>> ELSE v

\* A slip in the chain below: labels matched without regard to case.
MatchingLabelAnyCase(line) ==
    IF \E i \in 1..Len(Labels) :
          line # <<>> /\ Head(line) \in {Labels[i], "action:"} /\ (Head(line) = "action:" => i = 1)
    THEN CHOOSE i \in 1..Len(Labels) :
            line # <<>> /\ Head(line) \in {Labels[i], "action:"} /\ (Head(line) = "action:" => i = 1)
    ELSE 0

\* The if/elif chain of one loop iteration: the first label in the chain's
\* order that the line starts with, 0 when there is none.
MatchingLabel(line) ==
    IF \E i \in 1..Len(Labels) : StartsWith(line, Labels[i])
    THEN CHOOSE i \in 1..Len(Labels) :
            /\ StartsWith(line, Labels[i])
            /\ \A j \in 1..(i - 1) : ~StartsWith(line, Labels[j])
    ELSE 0

ParseLine(acc, line) ==
    LET i == MatchingLabel(line)
    IN  IF i = 0 THEN acc
        ELSE Put(acc, LabelKey(Labels[i]), LineValue(line, Labels[i]))

RECURSIVE ParseLines(_, _)
ParseLines(acc, lines) ==
    IF lines = <<>> THEN acc
    ELSE ParseLines(ParseLine(acc, Head(lines)), Tail(lines))

\* lines = decision.strip().split('\n'); parsed = {}; for line in lines: ...
ParseDecision(text) == ParseLines(EmptyDict, SplitLines(Strip(text)))

----------------------------------------------------------------------------
(* state.py / supervisor.py: the state dict and the supervisor's decision *)

\* The fields of the remembered user information.
MemoryFields == {"name", "user_id", "email"}

\* The dict objects: main's session_memory and the one dict a turn can create.
Refs == {1, 2}

\* The fixed acknowledgement of supervisor.py line 165.
Acknowledgement == <<"Got it! I've remembered your information.">>

\* state.get("user_memory") is truthy: the key is there and the dict is not empty.
HasUserMemory(st, hp) ==
    "user_memory" \in DOMAIN st /\ DOMAIN hp[st.user_memory] # {}

\* Lines 36-47: what the prompt tells the model about the user.
MemoryContext(st, hp) ==
    IF HasUserMemory(st, hp)
    THEN LET memory == hp[st.user_memory]
         IN  <<"Remembered information about the user:", NL>>
             \o (IF Truthy(memory, "name")
                 THEN <<"- Name: ">> \o memory.name \o <<NL>> ELSE <<>>)
             \o (IF Truthy(memory, "user_id")
                 THEN <<"- User ID: ">> \o memory.user_id \o <<NL>> ELSE <<>>)
             \o (IF Truthy(memory, "email")
                 THEN <<"- Email: ">> \o memory.email \o <<NL>> ELSE <<>>)
    ELSE <<>>

\* Line 148: parsed.get("action") == "store_info"
IsStoreInfo(p) == "action" \in DOMAIN p /\ p.action = <<"store_info">>

\* A slip in the store below: the emptiness test left out.
StoreFieldUnchecked(memory, p, f) ==
    IF f \in DOMAIN p THEN Put(memory, f, p[f]) ELSE memory

\* Lines 154-162, one field: stored when parsed and non-empty.
StoreField(memory, p, f) ==
    IF Truthy(p, f) THEN Put(memory, f, p[f]) ELSE memory

\* Lines 149-169.  The dict state["user_memory"] refers to is written in
\* place; a new dict (at reference fresh) is made only when there is none
\* or it is empty.
StoreInfo(st, hp, p, fresh) ==
    LET make == ~HasUserMemory(st, hp)
        ref == IF make THEN fresh ELSE st.user_memory
        old == IF make THEN EmptyDict ELSE hp[ref]
        new == StoreField(StoreField(StoreField(old, p, "name"),
                                     p, "user_id"), p, "email")
        st1 == Put(st, "user_memory", ref)
        st2 == Put(Put(Put(st1, "result", Acknowledgement),
                       "next_step", "end"), "action", <<"store_info">>)
    IN  [state |-> st2, heap |-> [hp EXCEPT ![ref] = new]]

\* A slip in the table below: two agents exchanged.
action_to_agent_swapped ==
    [assign_role |-> "role_agent",
     reset_password |-> "unlock_agent",
     unlock_user |-> "password_agent"]

\* Lines 177-181.
action_to_agent ==
    [assign_role |-> "role_agent",
     reset_password |-> "password_agent",
     unlock_user |-> "unlock_agent"]

\* Line 183: action_to_agent.get(parsed.get("action"), "end")
next_agent(p) ==
    IF "action" \in DOMAIN p /\ \E k \in DOMAIN action_to_agent : p.action = <<k>>
    THEN action_to_agent[CHOOSE k \in DOMAIN action_to_agent : p.action = <<k>>]
    ELSE "end"

\* Lines 171-190.
RegularAction(st, p) ==
    LET st1 == Put(st, "action", Get(p, "action", <<>>))
        st2 == Put(st1, "username", Get(p, "username", <<>>))
        st3 == Put(st2, "extra_info", Get(p, "extra", <<>>))
        st4 == Put(st3, "next_step", next_agent(p))
        st5 == Put(st4, "current_agent", "supervisor")
    IN  Put(st5, "status", "in_progress")

\* supervisor_agent once llm.invoke has returned text.
supervisor_agent(st, hp, text, fresh) ==
    LET p == ParseDecision(text)
    IN  IF IsStoreInfo(p) THEN StoreInfo(st, hp, p, fresh)
        ELSE [state |-> RegularAction(st, p), heap |-> hp]

----------------------------------------------------------------------------
(* agents.py *)

\* random.choices(...) of agents.py line 51: two of the possible passwords.
Passwords == {"aB3dE6gH9jK2", "Zy8xW7vU6tS5"}

role_agent(st) ==
    Put(Put(st, "result",
            <<"Successfully assigned role '">> \o st.extra_info
                \o <<"' to ">> \o st.username),
        "next_step", "end")

password_agent(st, new_password) ==
    Put(Put(st, "result",
            <<"Password reset for ">> \o st.username
                \o <<NL, "   New password: ", new_password>>),
        "next_step", "end")

\* A slip in the agent below: next_step left as the supervisor set it.
unlock_agent_no_end(st) ==
    Put(st, "result", <<"Successfully unlocked user ">> \o st.username)

unlock_agent(st) ==
    Put(Put(st, "result", <<"Successfully unlocked user ">> \o st.username),
        "next_step", "end")

----------------------------------------------------------------------------
(* workflow.py: the compiled graph *)

END == "__end__"

\* StateGraph(AgentState): the graph has one channel per key AgentState
\* declares (state.py lines 18-33).  main.py passes user_memory in the
\* input and the supervisor sets user_memory, current_agent and status on
\* the dict it returns, but AgentState declares none of the three: a key
\* without a channel is not read from the input, is not in the dict a node
\* is given, is not written back from a node's return value and is not in
\* what invoke returns.
Channels == {"messages", "action", "username", "extra_info", "result", "next_step"}

\* app.invoke(input): the input's declared keys become the channel values.
MapInput(input) == [k \in (DOMAIN input) \cap Channels |-> input[k]]

\* A node's returned dict updates the declared keys it holds.
ApplyWrites(ch, update) ==
    [k \in (DOMAIN ch) \cup ((DOMAIN update) \cap Channels) |->
        IF k \in DOMAIN update THEN update[k] ELSE ch[k]]

\* Lines 46-56.
route_to_next(st) == IF st.next_step = "end" THEN END ELSE st.next_step

\* Lines 63-72: the conditional edges out of the supervisor.
ConditionalEdges(target) ==
    CASE target = "role_agent" -> "role_agent"
      [] target = "password_agent" -> "password_agent"
      [] target = "unlock_agent" -> "unlock_agent"
      [] target = END -> END

SubAgents == {"role_agent", "password_agent", "unlock_agent"}

----------------------------------------------------------------------------
(* Inputs *)

\* What the user can type at the prompt of main.py line 42.
UserInputs ==
    { <<>>, <<SP>>,
      <<"quit">>, <<SP, "QUIT", SP>>, <<"Exit">>, <<"q">>, <<"Q">>,
      <<"Unlock", SP, "bob.jones">> }

\* main.py line 44.
ExitTokens == { <<"quit">>, <<"exit">>, <<"q">> }

\* The lines a model response can be made of.
ResponseLines ==
    { <<"ACTION:", SP, "assign_role">>,
      <<"ACTION:", SP, "reset_password">>,
      <<"ACTION:", SP, "unlock_user">>,
      <<"ACTION:", SP, "store_info">>,
      <<"ACTION:", SP, "delete_user">>,
      <<SP, "ACTION:", SP, "unlock_user">>,
      <<"action:", SP, "unlock_user">>,
      <<"USERNAME:", SP, "bob.jones">>,
      <<"USERNAME:", SP, "none">>,
      <<"EXTRA:", SP, "Admin", SP, "role">>,
      <<"EXTRA:", SP, "none">>,
      <<"NAME:", SP, "Aklank">>,
      <<"USER_ID:", SP, "aklankdiwakar", SP>>,
      <<"EMAIL:", SP, "none">>,
      <<"Sure,", SP, "here">> }

\* response.content: up to MaxLines lines joined by newlines (no line at
\* all is the empty response).
Responses ==
    { JoinLines(ls) : ls \in UNION { [1..n -> ResponseLines] : n \in 0..MaxLines } }

----------------------------------------------------------------------------
(* main.py: the session *)

NoConsole == [kind |-> "none", text |-> <<>>]

\* Lines 53-61.
InitialState(message) ==
    [messages |-> <<message>>, action |-> <<>>, username |-> <<>>,
     extra_info |-> <<>>, result |-> <<>>, next_step |-> "supervisor",
     user_memory |-> session_memory]

\* The dict a turn may create is taken where session_memory does not point.
FreshRef == CHOOSE r \in Refs : r # session_memory

Init ==
    /\ pc = "input"
    /\ user_input = <<>>
    /\ session_memory = 1
    /\ heap = [r \in Refs |-> EmptyDict]
    /\ channels = EmptyDict
    /\ state = EmptyDict
    /\ decision = <<>>
    /\ llm_raised = FALSE
    /\ parsed = EmptyDict
    /\ memory_context = <<>>
    /\ visited = <<>>
    /\ console = NoConsole

\* Lines 40-66: read a line; leave on an exit word (main returns and its
\* locals are gone), skip an empty line, otherwise build the initial state, print the rule of line 65 and start
\* the graph at its entry point.
MainInput ==
    /\ pc = "input"
    /\ \E raw \in UserInputs :
        LET text == Strip(raw)
        IN  /\ user_input' = text
            /\ IF Lower(text) \in ExitTokens
               THEN /\ pc' = "exited"
                    /\ console' = [kind |-> "goodbye", text |-> <<>>]
                    /\ channels' = EmptyDict
                    /\ state' = EmptyDict
                    /\ decision' = <<>>
                    /\ llm_raised' = FALSE
                    /\ parsed' = EmptyDict
                    /\ memory_context' = <<>>
                    /\ visited' = <<>>
                    /\ UNCHANGED <<session_memory, heap>>
               ELSE IF text = <<>>
               THEN UNCHANGED <<pc, console, session_memory, heap, channels, state,
                                decision, llm_raised, parsed, memory_context, visited>>
               ELSE /\ pc' = "supervisor"
                    /\ state' = InitialState(text)
                    /\ channels' = MapInput(InitialState(text))
                    /\ heap' = [heap EXCEPT ![FreshRef] = EmptyDict]
                    /\ decision' = <<>>
                    /\ llm_raised' = FALSE
                    /\ parsed' = EmptyDict
                    /\ memory_context' = <<>>
                    /\ visited' = <<>>
                    /\ console' = [kind |-> "rule", text |-> <<>>]
                    /\ UNCHANGED session_memory

\* A slip in the except branch below: the error ends the loop.
MainExceptStops ==
    /\ pc' = "exited"
    /\ console' = [kind |-> "error", text |-> <<"llm.invoke failed">>]
    /\ UNCHANGED <<session_memory, heap>>

\* Lines 84-86: the except branch prints the error and the loop goes on.
MainExcept ==
    /\ pc' = "input"
    /\ console' = [kind |-> "error", text |-> <<"llm.invoke failed">>]
    /\ UNCHANGED <<session_memory, heap>>

\* The supervisor node when llm.invoke (line 121) returns a response.
SupervisorNode ==
    /\ pc = "supervisor"
    /\ \E text \in Responses :
        LET r == supervisor_agent(channels, heap, text, FreshRef)
        IN  /\ decision' = text
            /\ parsed' = ParseDecision(text)
            /\ state' = r.state
            /\ heap' = r.heap
            /\ channels' = ApplyWrites(channels, r.state)
            /\ pc' = ConditionalEdges(route_to_next(ApplyWrites(channels, r.state)))
    /\ memory_context' = MemoryContext(channels, heap)
    /\ llm_raised' = FALSE
    /\ visited' = Append(visited, "supervisor")
    /\ UNCHANGED <<user_input, session_memory, console>>

\* The supervisor node when llm.invoke raises: nothing catches it before
\* main's except branch.
SupervisorRaises ==
    /\ pc = "supervisor"
    /\ memory_context' = MemoryContext(channels, heap)
    /\ llm_raised' = TRUE
    /\ visited' = Append(visited, "supervisor")
    /\ state' = channels
    /\ MainExcept
    /\ UNCHANGED <<user_input, channels, decision, parsed>>

RoleAgentNode ==
    /\ pc = "role_agent"
    /\ state' = role_agent(channels)
    /\ channels' = ApplyWrites(channels, role_agent(channels))
    /\ visited' = Append(visited, "role_agent")
    /\ pc' = END
    /\ UNCHANGED <<user_input, session_memory, heap, decision, llm_raised,
                   parsed, memory_context, console>>

PasswordAgentNode ==
    /\ pc = "password_agent"
    /\ \E new_password \in Passwords :
        /\ state' = password_agent(channels, new_password)
        /\ channels' = ApplyWrites(channels, password_agent(channels, new_password))
    /\ visited' = Append(visited, "password_agent")
    /\ pc' = END
    /\ UNCHANGED <<user_input, session_memory, heap, decision, llm_raised,
                   parsed, memory_context, console>>

UnlockAgentNode ==
    /\ pc = "unlock_agent"
    /\ state' = unlock_agent(channels)
    /\ channels' = ApplyWrites(channels, unlock_agent(channels))
    /\ visited' = Append(visited, "unlock_agent")
    /\ pc' = END
    /\ UNCHANGED <<user_input, session_memory, heap, decision, llm_raised,
                   parsed, memory_context, console>>

\* Lines 66-82: app.invoke returns the channel values; main adopts the
\* returned user_memory when there is a non-empty one and prints the result.
MainAfterInvoke ==
    /\ pc = END
    /\ session_memory' =
          IF HasUserMemory(channels, heap) THEN channels.user_memory
          ELSE session_memory
    /\ console' = [kind |-> "agent", text |-> channels.result]
    /\ pc' = "input"
    /\ UNCHANGED <<user_input, heap, channels, state, decision, llm_raised,
                   parsed, memory_context, visited>>

Next ==
    \/ MainInput
    \/ SupervisorNode
    \/ SupervisorRaises
    \/ RoleAgentNode
    \/ PasswordAgentNode
    \/ UnlockAgentNode
    \/ MainAfterInvoke

Spec == Init /\ [][Next]_vars

----------------------------------------------------------------------------
(* supervisor_agent called directly on a state dict, as the standalone test *)
(* of supervisor.py lines 193-206 does, for any remembered information      *)

\* The user_memory dicts a caller hands in.
DirectMemories ==
    { EmptyDict,
      [name |-> <<"Aklank">>],
      [user_id |-> <<"bob.jones">>, email |-> <<"bob@example.com">>] }

DirectBase ==
    [messages |-> << <<"Unlock", SP, "bob.jones">> >>, action |-> <<>>,
     username |-> <<>>, extra_info |-> <<>>, result |-> <<>>,
     next_step |-> "supervisor"]

DirectInit ==
    /\ pc = "call"
    /\ user_input = <<>>
    /\ session_memory = 1
    /\ \/ /\ state = DirectBase
          /\ heap = [r \in Refs |-> EmptyDict]
       \/ /\ state = Put(DirectBase, "user_memory", 1)
          /\ \E memory \in DirectMemories :
                heap = [r \in Refs |-> IF r = 1 THEN memory ELSE EmptyDict]
    /\ channels = EmptyDict
    /\ decision = <<>>
    /\ llm_raised = FALSE
    /\ parsed = EmptyDict
    /\ memory_context = <<>>
    /\ visited = <<>>
    /\ console = NoConsole

DirectCall ==
    /\ pc = "call"
    /\ \E text \in Responses :
        LET r == supervisor_agent(state, heap, text, FreshRef)
        IN  /\ decision' = text
            /\ parsed' = ParseDecision(text)
            /\ state' = r.state
            /\ heap' = r.heap
    /\ memory_context' = MemoryContext(state, heap)
    /\ llm_raised' = FALSE
    /\ pc' = "returned"
    /\ UNCHANGED <<user_input, session_memory, channels, visited, console>>

DirectCallRaises ==
    /\ pc = "call"
    /\ memory_context' = MemoryContext(state, heap)
    /\ llm_raised' = TRUE
    /\ pc' = "raised"
    /\ UNCHANGED <<user_input, session_memory, heap, channels, state, decision,
                   parsed, visited, console>>

DirectNext == DirectCall \/ DirectCallRaises

SupervisorSpec == DirectInit /\ [][DirectNext]_vars

----------------------------------------------------------------------------
(* Vocabulary of the properties *)

OperationalActions == { <<"assign_role">>, <<"reset_password">>, <<"unlock_user">> }

KnownActions == OperationalActions \cup { <<"store_info">>, <<"unknown">> }

ParsedAction == Get(parsed, "action", <<>>)
ParsedUsername == Get(parsed, "username", <<>>)
ParsedExtra == Get(parsed, "extra", <<>>)

\* The handler each operational action is meant to reach.
HandlerFor(a) ==
    CASE a = <<"assign_role">> -> "role_agent"
      [] a = <<"reset_password">> -> "password_agent"
      [] a = <<"unlock_user">> -> "unlock_agent"

\* The supervisor of the current turn has classified the request.
Classified == visited # <<>> /\ ~llm_raised

\* The graph is running a turn.
TurnPcs == {"supervisor", END} \cup SubAgents

\* The remembered information main holds.
SessionMemory == heap[session_memory]

\* C1: a turn whose action is assign_role, reset_password or unlock_user
\* and whose username is empty is rejected with "missing username": no
\* handler runs and the user is told the username is missing.
C1_MissingUsernameRejected ==
    (Classified /\ ParsedAction \in OperationalActions /\ ParsedUsername = <<>>)
        => /\ pc \notin SubAgents
           /\ visited = <<"supervisor">>
           /\ (console.kind = "agent" => console.text = <<"missing username">>)

\* In a turn classified as an operational action with a username: where
\* control is, which nodes have run, and what the handler is given.
C2_DispatchState ==
    (Classified /\ ParsedAction \in OperationalActions /\ ParsedUsername # <<>>)
        => /\ pc \in {HandlerFor(ParsedAction), END, "input"}
           /\ visited = IF pc = HandlerFor(ParsedAction) THEN <<"supervisor">>
                        ELSE <<"supervisor", HandlerFor(ParsedAction)>>
           /\ channels.username = ParsedUsername
           /\ channels.extra_info = ParsedExtra

\* No step of such a turn changes the session memory.
C2_DispatchStep ==
    (ParsedAction' \in OperationalActions /\ ParsedUsername' # <<>>
        /\ visited' # <<>> /\ ~llm_raised' /\ pc \in TurnPcs)
        => heap'[session_memory'] = heap[session_memory]

\* C2: a turn whose action is assign_role, reset_password or unlock_user
\* with a non-empty username runs exactly the matching handler, which gets
\* the parsed username and extra unchanged, and no step of the turn changes
\* the session memory.
C2_Dispatch == []C2_DispatchState /\ [][C2_DispatchStep]_vars

C2_Witness ==
    /\ pc = "input"
    /\ visited = <<"supervisor", "role_agent">>
    /\ ParsedUsername = <<"bob.jones">>
    /\ ParsedExtra = <<"Admin", SP, "role">>
    /\ console.kind = "agent"
    /\ console.text = <<"Successfully assigned role '", "Admin", SP, "role",
                        "' to ", "bob.jones">>

\* A call of the supervisor that classifies store_info.
C3_StoreInfoStep ==
    (pc = "call" /\ pc' = "returned" /\ ParsedAction' = <<"store_info">>)
        => /\ route_to_next(state') = END
           /\ state'.result = Acknowledgement
           /\ "user_memory" \in DOMAIN state'
           /\ LET old == IF "user_memory" \in DOMAIN state
                         THEN heap[state.user_memory] ELSE EmptyDict
                  new == heap'[state'.user_memory]
              IN  \A f \in MemoryFields :
                    Get(new, f, <<>>) =
                        IF f \in DOMAIN parsed' /\ parsed'[f] # <<>>
                        THEN parsed'[f] ELSE Get(old, f, <<>>)

\* C3: a store_info decision runs no handler, answers with the fixed
\* acknowledgement, and leaves as user_memory the field-wise merge of the
\* memory handed in with the parsed update: a parsed non-empty value
\* replaces the field, every other field keeps its prior value.
C3_StoreInfoMerge == [][C3_StoreInfoStep]_vars

C3_Witness ==
    /\ pc = "returned"
    /\ ParsedAction = <<"store_info">>
    /\ "email" \in DOMAIN parsed /\ parsed.email = <<>>
    /\ "name" \notin DOMAIN parsed
    /\ heap[state.user_memory] =
          [user_id |-> <<"aklankdiwakar">>, email |-> <<"bob@example.com">>]

\* main taking over the result of a store_info turn.
C4_CarriedStep ==
    (pc = END /\ pc' = "input" /\ ParsedAction = <<"store_info">>)
        => \A f \in MemoryFields :
              Truthy(parsed, f) => Get(heap'[session_memory'], f, <<>>) = parsed[f]

\* C4: what a store_info turn stored is the session memory of the next
\* turn: when the turn is over, main's session memory holds every non-empty
\* field the turn parsed.
C4_MemoryCarried == [][C4_CarriedStep]_vars

\* C5: a response whose ACTION is missing or not one of the five known
\* values is classified as unknown and the turn is rejected with "could not
\* understand request", with no handler run.
C5_UnknownRejected ==
    (Classified /\ ParsedAction \notin KnownActions)
        => /\ channels.action = <<"unknown">>
           /\ visited = <<"supervisor">>
           /\ pc \notin SubAgents
           /\ (console.kind = "agent"
                  => console.text = <<"could not understand request">>)

\* C6: a value that is exactly none is read as absent: no parsed field
\* other than the action, no handler argument and no memory field is ever
\* the text "none".
C6_NoneIsAbsent ==
    /\ \A k \in (DOMAIN parsed) \ {"action"} : parsed[k] # NoneText
    /\ pc \in SubAgents =>
          (channels.username # NoneText /\ channels.extra_info # NoneText)
    /\ \A r \in Refs : \A f \in DOMAIN heap[r] : heap[r][f] # NoneText

\* The step in which llm.invoke raises, and the step that leaves the loop.
C7_FailureStep ==
    /\ (pc = "supervisor" /\ llm_raised')
          => /\ console'.kind = "error"
             /\ pc' = "input"
             /\ parsed' = EmptyDict
             /\ channels' = channels
             /\ session_memory' = session_memory
             /\ heap'[session_memory'] = heap[session_memory]
    /\ (pc # "exited" /\ pc' = "exited")
          => /\ pc = "input"
             /\ \E w \in {"quit", "exit", "q"} : Lower(user_input') = <<w>>

\* C7: a failing language-model call is reported as an error for the turn,
\* makes no decision, keeps the session going and leaves the session memory
\* as it was; the loop is left only from the prompt, on one of the exit
\* words quit, exit, q in any letter case.
C7_FailureReported == [][C7_FailureStep]_vars

C7_Witness ==
    /\ pc = "input"
    /\ llm_raised
    /\ console.kind = "error"
    /\ visited = <<"supervisor">>

\* A call of the supervisor with a user_memory dict handed in.
C8_InputKeptStep ==
    (pc = "call" /\ "user_memory" \in DOMAIN state)
        => heap'[state.user_memory] = heap[state.user_memory]

RawLines == SplitLines(decision)

KnownLabels == {"ACTION:", "USERNAME:", "EXTRA:", "NAME:", "USER_ID:", "EMAIL:"}

BeginsWithLabel(line) == line # <<>> /\ line[1] \in KnownLabels

\* The supervisor has just parsed decision.
JustParsed == visited = <<"supervisor">> /\ ~llm_raised /\ pc \in TurnPcs

LineOrders(n) ==
    { f \in [1..n -> 1..n] : \A i, j \in 1..n : f[i] = f[j] => i = j }

Reordered(lines, f) == [i \in 1..Len(lines) |-> lines[f[i]]]

\* Every reordering of the response's lines parses to the same fields.
OrderIndependent ==
    \A f \in LineOrders(Len(RawLines)) :
        ParseDecision(JoinLines(Reordered(RawLines, f))) = parsed

\* No label begins two lines, and no line begins with white space.
PlainLines ==
    /\ \A i, j \in 1..Len(RawLines) :
          (i # j /\ BeginsWithLabel(RawLines[i]) /\ BeginsWithLabel(RawLines[j]))
              => RawLines[i][1] # RawLines[j][1]
    /\ \A i \in 1..Len(RawLines) :
          RawLines[i] # <<>> => RawLines[i][1] \notin Whitespace

\* C9 as stated, its clause on order: the parsed fields do not depend on
\* the order of the response's lines, whatever the lines are.
C9_OrderNeverMatters == JustParsed => OrderIndependent

\* C9 as amended: lines of the (stripped) response that begin with no
\* known label are ignored, a label that begins no line leaves its field
\* absent (read as empty), ACTION: unlock_user with USERNAME: bob.jones
\* gives unlock_user, bob.jones and an empty extra, and the fields do not
\* depend on the order of the lines when no label begins two lines and no
\* line begins with white space.
C9_TolerantParsing ==
    JustParsed =>
        LET lines == SplitLines(Strip(decision))
        IN  /\ parsed = ParseLines(EmptyDict, SelectSeq(lines, BeginsWithLabel))
            /\ \A i \in 1..Len(Labels) :
                  (\A n \in 1..Len(lines) :
                      ~(lines[n] # <<>> /\ lines[n][1] = Labels[i]))
                      => LabelKey(Labels[i]) \notin DOMAIN parsed
            /\ ~IsStoreInfo(parsed) =>
                  /\ channels.action = ParsedAction
                  /\ channels.username = ParsedUsername
                  /\ channels.extra_info = ParsedExtra
            /\ \A f \in LineOrders(2) :
                  decision = JoinLines(Reordered(
                                << <<"ACTION:", SP, "unlock_user">>,
                                   <<"USERNAME:", SP, "bob.jones">> >>, f))
                      => /\ channels.action = <<"unlock_user">>
                         /\ channels.username = <<"bob.jones">>
                         /\ channels.extra_info = <<>>
                         /\ pc = "unlock_agent"
            /\ PlainLines => OrderIndependent

C9_Witness ==
    /\ JustParsed
    /\ decision = JoinLines(<< <<"Sure,", SP, "here">>,
                               <<"USERNAME:", SP, "bob.jones">>,
                               <<"ACTION:", SP, "unlock_user">> >>)
    /\ PlainLines
    /\ parsed = [action |-> <<"unlock_user">>, username |-> <<"bob.jones">>]
    /\ channels.extra_info = <<>>
    /\ pc = "unlock_agent"

\* Control goes back to main's prompt only from END.
C10_TurnEndsAtEndStep ==
    (pc \in TurnPcs /\ pc' = "input")
        => (pc = END /\ channels.next_step = "end")

\* C10 as stated: every turn started ends by reaching END with next_step
\* "end", the supervisor having run once and at most one handler after it.
C10_TurnAlwaysReachesEnd == [][C10_TurnEndsAtEndStep]_vars

\* How far a turn's position is from handing control back to main.
Rank(p) == CASE p = "supervisor" -> 3 [] p \in SubAgents -> 2 [] p = END -> 1
             [] OTHER -> 0

\* The nodes run so far, and that a running turn can always take a step.
C10_Shape ==
    /\ visited \in {<<>>, <<"supervisor">>}
                      \cup { <<"supervisor", a>> : a \in SubAgents }
    /\ pc = "supervisor" => visited = <<>>
    /\ pc \in SubAgents => visited = <<"supervisor">>
    /\ pc = END => (visited # <<>> /\ channels.next_step = "end")
    /\ pc \in TurnPcs => ENABLED Next

\* Each step of a turn brings it closer to its end.
C10_Step ==
    /\ pc \in TurnPcs => Rank(pc') < Rank(pc)
    /\ (pc \in TurnPcs /\ pc' = "input")
          => (pc = END \/ (pc = "supervisor" /\ llm_raised'))
    /\ pc' = "supervisor" => pc = "input"

\* C10 as amended: every turn ends after at most three graph steps, the
\* supervisor runs once, at most one handler runs after it, no node runs
\* twice; the turn reaches END with next_step "end" unless the supervisor's
\* language-model call raised, in which case the turn ends at the supervisor
\* with main's error report; an utterance is accepted only between turns.
C10_TurnTerminates == []C10_Shape /\ [][C10_Step]_vars

C10_Witness ==
    /\ pc = END
    /\ visited = <<"supervisor", "password_agent">>
    /\ channels.next_step = "end"

====
